---------------------------- MODULE Spec2Model ----------------------------
(***************************************************************************)
(* akc-node-sdk: the session cache (lib/utils/common.js) and the query     *)
(* facade (class QueryService).                                            *)
(*                                                                         *)
(* Every in-flight call of the SDK is a task.  A task runs one atomic      *)
(* segment of JavaScript per step: from the call, or from the resumption   *)
(* of an `await`, up to the next `await` or to the return.  Between two    *)
(* segments of a task any segment of another task may run: Node's event    *)
(* loop interleaves calls only at their awaits.                            *)
(*                                                                         *)
(* Values of the program are records tagged by a field t, so that values   *)
(* of different JavaScript types compare unequal.                          *)
(***************************************************************************)
EXTENDS Naturals, Sequences, FiniteSets

(***************************************************************************)
(* Bounds of the model.                                                    *)
(***************************************************************************)
\* Calls started over a behaviour.
MaxCalls == 2

\* The slots of the calls that can be in flight together, in the order
\* calls take them.
Tasks == {"t1", "t2"}

SlotBefore(u, t) == u = "t1" /\ t = "t2"

(***************************************************************************)
(* JavaScript values.                                                      *)
(***************************************************************************)
\* null and undefined: the code tests both by truthiness only.
Null == [t |-> "null"]

Str(s) == [t |-> "string", text |-> s]

Num(n) == [t |-> "number", n |-> n]

\* An Error object; err.toString() is name ": " message.
ErrorObj(name, message) == [t |-> "error", name |-> name, message |-> message]

ErrorToString(e) == Str(e.name \o ": " \o e.message)

\* A fabric-client Client object, by identity.
ClientH(id) == [t |-> "client", id |-> id]

\* The Channel object client `id` hands out for channel `name`.
ChannelH(id, name) == [t |-> "channel", client |-> id, name |-> name]

\* The settlement of a promise, or the completion of a statement.
Ok(v) == [ok |-> TRUE, v |-> v]

Thrown(e) == [ok |-> FALSE, v |-> e]

Truthy(v) == v # Null /\ v # Str("")

(***************************************************************************)
(* The environment: the connection profile and the fabric-client library.  *)
(***************************************************************************)
\* Channel names a caller may pass.
ChannelNames == {"ch1", "ch2"}

\* The channels the connection profile defines.
ProfileChannels == {"ch1"}

\* client.getChannel(name) of fabric-client: the Channel of a profiled name;
\* for a name the profile lacks the library either hands back nothing or
\* throws, depending on its version and its throwError default.
ClientGetChannel(client, name) ==
    IF name \in ProfileChannels
    THEN {Ok(ChannelH(client.id, name))}
    ELSE {Ok(Null),
          Thrown(ErrorObj("Error", "Channel not found for name " \o name))}

(***************************************************************************)
(* State.                                                                  *)
(***************************************************************************)
VARIABLES
    CLIENT,     \* global.CLIENT: the cached Client, or Null
    CHANNEL,    \* global.CHANNEL: the cached Channel, or Null
    handles,    \* handles[i]: how far Client i has been initialised
    task,       \* task[t]: the call in flight in slot t
    calls,      \* calls started so far
    lastDone,   \* the call the step just taken completed, or NoneDone
    host,       \* the free names of the facade the global object defines
    metrics     \* the prom-client counters and histograms of common.js

vars == <<CLIENT, CHANNEL, handles, task, calls, lastDone, host, metrics>>

\* Lines 94-116 of common.js: the counters and the histograms as they are
\* declared, nothing counted and nothing observed.
NoMetrics ==
    [requestCounter |-> 0, errorRequestCounter |-> 0,
     sendTransactionTotalHistogram |-> 0, sendProposalHistogram |-> 0,
     sendTransactionHistogram |-> 0]

\* No network answer: the call has queried nothing (yet).
NoAnswer == [t |-> "none"]

\* A slot with no call in flight.  channelName and isRefresh are the call's
\* arguments; client is the Client getClientForOrg is building (0: none);
\* ret is what the awaited promise settled with; channel is the facade's
\* local `channel`, once common.getChannel has given it; sent is the handle
\* a network query was issued on; raw is the network's answer; tried are the
\* tuples handed to createReturn; atCall are the metrics as the call began.
IdleTask ==
    [op |-> "idle", pc |-> "idle", stack |-> <<>>, channelName |-> "",
     isRefresh |-> FALSE, client |-> 0, ret |-> Ok(Null),
     channel |-> NoAnswer, sent |-> Null, raw |-> NoAnswer, tried |-> <<>>,
     atCall |-> NoMetrics]

\* lastDone in a state no call has just completed in.
NoneDone ==
    [op |-> "none", channelName |-> "", isRefresh |-> FALSE,
     outcome |-> Ok(Null), channel |-> NoAnswer, sent |-> Null, raw |-> NoAnswer,
     tried |-> <<>>, atCall |-> NoMetrics, prevOp |-> "none",
     prevRefresh |-> FALSE, prevOutcome |-> Ok(Null)]

\* The program state one segment of task t works on.
StateOf(t) ==
    [tk |-> task[t], CLIENT |-> CLIENT, CHANNEL |-> CHANNEL, handles |-> handles]

\* What the promise task t awaited settled with, and the state its
\* resumption works on.
Awaited(t) == task[t].ret

Resumed(t) == [StateOf(t) EXCEPT !.tk.ret = Ok(Null)]

(***************************************************************************)
(* Calls and returns of async functions.                                   *)
(***************************************************************************)
\* The running async function settles its promise with r.  Its caller, if
\* any, resumes from its await in a later segment; a call made by the user
\* of the SDK is complete.
Settle(s, r) ==
    IF s.tk.stack = <<>>
    THEN [s EXCEPT !.tk.pc = "complete", !.tk.ret = r]
    ELSE [s EXCEPT !.tk.pc = Head(s.tk.stack), !.tk.stack = Tail(s.tk.stack),
                   !.tk.ret = r]

\* The caller awaits the callee and resumes at `label`.
Await(s, label) == [s EXCEPT !.tk.stack = <<label>> \o @]

(***************************************************************************)
(* getClientForOrg                                                         *)
(***************************************************************************)
\* The cache test of line 33 without its isRefresh operand.
UseCachedClientIgnoringRefresh(s, isRefresh) == Truthy(s.CLIENT)

\* Line 33: the cached client serves the call.
UseCachedClient(s, isRefresh) == ~isRefresh /\ Truthy(s.CLIENT)

\* Line 61: CLIENT = client.
PublishClient(s) == [s EXCEPT !.CLIENT = ClientH(s.tk.client)]

\* Lines 46-63, past the last await: the client has its profiles, its
\* credential stores and its user context; it is published and returned.
ReturnClient(s) ==
    LET done == [s EXCEPT !.handles[s.tk.client] = "ready"]
    IN  Settle([PublishClient(done) EXCEPT !.tk.client = 0],
               Ok(ClientH(s.tk.client)))

\* The function fails with e; the client it was building is dropped.
FailClient(s, e) ==
    Settle([s EXCEPT !.handles[s.tk.client] = "failed", !.tk.client = 0],
           Thrown(e))

\* getClientForOrg with line 61 moved above line 43: the singleton is set
\* before the awaits.
GetClientForOrgPublishingEarly(s, isRefresh) ==
    IF UseCachedClient(s, isRefresh)
    THEN {Settle(s, Ok(s.CLIENT))}
    ELSE {Settle(s, Thrown(ErrorObj("Error", "invalid connection profile"))),
          [s EXCEPT !.handles = Append(@, "profiles"),
                    !.CLIENT = ClientH(Len(s.handles) + 1),
                    !.tk.client = Len(s.handles) + 1,
                    !.tk.pc = "g_stores"]}

\* Lines 29-43, up to the first await: the cache test, or a new Client from
\* the two connection profiles (either loadFromConfig may throw) and the
\* call of initCredentialStores.
GetClientForOrg(s, isRefresh) ==
    IF UseCachedClient(s, isRefresh)
    THEN {Settle(s, Ok(s.CLIENT))}
    ELSE {Settle(s, Thrown(ErrorObj("Error", "invalid connection profile"))),
          [s EXCEPT !.handles = Append(@, "profiles"),
                    !.tk.client = Len(s.handles) + 1,
                    !.tk.pc = "g_stores"]}

\* Lines 43-46: initCredentialStores settles.  Without a user name (neither
\* the argument nor USER_NAME) the client is published at once.
ClientStoresSettled(s) ==
    {FailClient(s, ErrorObj("Error", "credential store unavailable")),
     ReturnClient(s),
     [s EXCEPT !.handles[s.tk.client] = "stores", !.tk.pc = "g_user"]}

\* Lines 47-63: getUserContext(userName, true) settles: the user is found;
\* or it is not and the persisted context stands in for it; or neither
\* exists and line 51 throws (`util` is not required by common.js, so the
\* throw is the ReferenceError of util.format); or the lookup rejects.
ClientUserSettled(s) ==
    {ReturnClient(s),
     FailClient(s, ErrorObj("ReferenceError", "util is not defined")),
     FailClient(s, ErrorObj("Error", "user context unavailable"))}

(***************************************************************************)
(* getChannel                                                              *)
(***************************************************************************)
\* The cache test of line 76 made to look at the name that is asked for.
UseCachedChannelOfName(s, isRefresh) ==
    /\ ~isRefresh
    /\ Truthy(s.CHANNEL)
    /\ s.CHANNEL.name = s.tk.channelName

\* Line 76: the cached channel serves the call.
UseCachedChannel(s, isRefresh) == ~isRefresh /\ Truthy(s.CHANNEL)

\* Lines 87-88: CHANNEL = CLIENT.getChannel(channelName); return CHANNEL.
AssignChannel(s) ==
    {IF a.ok THEN Settle([s EXCEPT !.CHANNEL = a.v], a) ELSE Settle(s, a) :
        a \in ClientGetChannel(s.CLIENT, s.tk.channelName)}

\* Lines 72-88, up to the first await.
GetChannel(s, isRefresh) ==
    IF UseCachedChannel(s, isRefresh)
    THEN {Settle(s, Ok(s.CHANNEL))}
    ELSE IF ~Truthy(s.CLIENT)
    THEN GetClientForOrg(Await(s, "c_assign"), FALSE)
    ELSE AssignChannel(s)

\* Line 85 resumes: CLIENT = <the awaited client>, then lines 87-88.  A
\* rejection of getClientForOrg rejects getChannel.
ChannelClientSettled(s, r) ==
    IF r.ok
    THEN AssignChannel([s EXCEPT !.CLIENT = r.v])
    ELSE {Settle(s, r)}

(***************************************************************************)
(* What the facade's module can name.                                      *)
(***************************************************************************)
\* The names lib/utils/common.js exports: createReturn is not one of them.
CommonExports ==
    {"getClientForOrg", "getChannel", "requestCounter",
     "sendTransactionTotalHistogram", "sendProposalHistogram",
     "sendTransactionHistogram", "errorRequestCounter"}

\* The identifiers the facade's module reads and neither declares nor
\* requires.  Reading one is a ReferenceError unless the process that loaded
\* the SDK has put it on the global object.
SessionNames == {"orgName", "userName", "channelName"}

CodecNames == {"asn", "sha"}

FreeNames == SessionNames \cup CodecNames \cup {"error"}

\* The global objects considered: that of a process that defines none of
\* the names (the SDK on its own), and that of a process that defines the
\* names crawlBlock needs to reach the ledger and to hash a header.
HostScopes == {{}, SessionNames \cup CodecNames}

\* The ReferenceError of reading `name`.
NotDefined(name) == ErrorObj("ReferenceError", name \o " is not defined")

\* The TypeError of reading a property of undefined or null.
NoProperty(prop) ==
    ErrorObj("TypeError", "Cannot read property '" \o prop \o "' of undefined")

(***************************************************************************)
(* QueryResult and common.createReturn.                                    *)
(***************************************************************************)
QueryResult(code, payload, message, detail) ==
    [t |-> "QueryResult", statusCode |-> code, payload |-> payload,
     message |-> message, detail |-> detail]

\* The payload of a failure.
Empty == Str("")

\* common.createReturn(q...): the arguments are evaluated, then the call is
\* made.  common has no createReturn, so the call is a TypeError.
CreateReturn(s, q) ==
    [st |-> [s EXCEPT !.tk.tried = Append(@, q)],
     r |-> IF "createReturn" \in CommonExports
           THEN Ok(q)
           ELSE Thrown(ErrorObj("TypeError",
                                "common.createReturn is not a function"))]

\* 'Channel %s was not defined in the connection profile'
ChannelNotDefined(name) ==
    "Channel " \o name \o " was not defined in the connection profile"

(***************************************************************************)
(* JSON.parse, on the texts the model's peers send.                        *)
(***************************************************************************)
JsonStatus500 == "{\"status\":500,\"msg\":\"not found\"}"

JsonStatus200 == "{\"status\":200,\"msg\":\"ok\"}"

JsonBalance == "{\"balance\":100}"

JsonNull == "null"

PlainText == "chaincode failure"

\* JSON.parse(text): the value, or the SyntaxError.
JSONParse(text) ==
    CASE text = JsonStatus500 ->
            Ok([t |-> "object", status |-> Num(500), msg |-> Str("not found")])
      [] text = JsonStatus200 ->
            Ok([t |-> "object", status |-> Num(200), msg |-> Str("ok")])
      [] text = JsonBalance ->
            Ok([t |-> "object", balance |-> Num(100)])
      [] text = JsonNull -> Ok(Null)
      [] OTHER ->
            Thrown(ErrorObj("SyntaxError", "Unexpected token in JSON"))

\* obj.status and obj.msg of a parsed value: undefined when the object has
\* no such field.
Field(obj, name) ==
    IF name \in DOMAIN obj THEN obj[name] ELSE Null

(***************************************************************************)
(* queryChaincode                                                          *)
(***************************************************************************)
\* What channel.sendTransactionProposal settles with: a rejection; no
\* results at all; a results array whose first element is not an array of
\* responses; or the responses, of which the code reads the first: nothing,
\* an Error of the endorser, a response with a payload, something else.
EndorserErrors ==
    {[t |-> "error", name |-> "Error", message |-> Str(m)] :
        m \in {JsonStatus500, JsonStatus200, JsonNull, PlainText}}
    \cup {[t |-> "error", name |-> "Error", message |-> Null]}

EndorserPayloads ==
    {[t |-> "endorsed",
      response |-> [status |-> Num(c), payload |-> [t |-> "buffer", utf8 |-> x]]] :
        c \in {200, 500}, x \in {JsonBalance, PlainText}}

ProposalAnswers ==
    {Thrown(ErrorObj("Error", "REQUEST_TIMEOUT")),
     Ok([t |-> "results", responses |-> Null]),
     Ok([t |-> "results", responses |-> Str("not an array")])}
    \cup {Ok([t |-> "results", responses |-> [t |-> "array", first |-> f]]) :
            f \in {Null, [t |-> "endorsed", response |-> Null]}
                  \cup EndorserErrors \cup EndorserPayloads}

\* Lines 90-93, the catch of queryChaincode: createReturn(202, "",
\* error.toString(), error.toString()).  An error raised here rejects the
\* call.
QueryCatch(s, e) ==
    LET c == CreateReturn(s, QueryResult(Num(202), Empty, ErrorToString(e),
                                         ErrorToString(e)))
    IN  Settle(c.st, c.r)

\* `return common.createReturn(q...)` inside the try.
QueryReturn(s, q) ==
    LET c == CreateReturn(s, q)
    IN  IF c.r.ok THEN Settle(c.st, c.r) ELSE QueryCatch(c.st, c.r.v)

\* Lines 60-71: the first response is an Error.  Line 62-63 copy its own
\* properties; line 65 parses its message.  The catch of line 68 reads
\* convertObj, which is declared in the try block it follows: line 70 is the
\* ReferenceError of convertObj.
NormalizeEndorserError(s, err) ==
    LET parsed == IF err.message = Null
                  THEN Thrown(ErrorObj("SyntaxError", "Unexpected token u in JSON"))
                  ELSE JSONParse(err.message.text)
    IN  IF parsed.ok /\ parsed.v # Null
        THEN QueryReturn(s, QueryResult(Field(parsed.v, "status"), Empty,
                                        Field(parsed.v, "msg"),
                                        Field(parsed.v, "msg")))
        ELSE QueryCatch(s, NotDefined("convertObj"))

\* Lines 74-80: obj.payload.toString('utf8'), parsed as JSON when it parses.
DecodePayload(payload) ==
    LET parsed == JSONParse(payload.utf8)
    IN  IF parsed.ok THEN parsed.v ELSE Str(payload.utf8)

\* Lines 52-89: the answer of the endorsers, normalized.
Normalize(s, results) ==
    LET responses == results.responses
    IN  IF responses = Null \/ responses.t # "array"
        THEN QueryReturn(s, QueryResult(Num(202), Empty,
                Str("Payload results are missing from the chaincode query"),
                Empty))
        ELSE IF responses.first = Null
        THEN QueryReturn(s, QueryResult(Num(202), Empty,
                                        Str("response_payloads is null"), Empty))
        ELSE IF responses.first.t = "error"
        THEN NormalizeEndorserError(s, responses.first)
        ELSE IF responses.first.response # Null
        THEN QueryReturn(s, QueryResult(responses.first.response.status,
                            DecodePayload(responses.first.response.payload),
                            Str("Success"), Str("Success")))
        ELSE QueryReturn(s, QueryResult(Num(202), Empty,
                Str("queryByChaincode - unknown or missing results in query"),
                Empty))

\* Line 32, on the call: await common.getClientForOrg(orgName, userName).
QueryChaincode(s) == GetClientForOrg(Await(s, "q_client"), FALSE)

\* Lines 32-34: the client is there; await common.getChannel(...).
QueryClientSettled(s, r) ==
    IF r.ok
    THEN GetChannel(Await(s, "q_channel"), FALSE)
    ELSE {QueryCatch(s, r.v)}

\* Lines 34-51: the channel is there.  Without one the code returns the 202
\* tuple; with one it makes the transaction id (which the library refuses a
\* client that has no user context) and sends the proposal.
QueryChannelSettled(s, r) ==
    IF ~r.ok
    THEN {QueryCatch(s, r.v)}
    ELSE IF ~Truthy(r.v)
    THEN {QueryReturn([s EXCEPT !.tk.channel = r.v],
            QueryResult(Num(202), Empty,
                        Str(ChannelNotDefined(s.tk.channelName)),
                        Str(ChannelNotDefined(s.tk.channelName))))}
    ELSE {QueryCatch([s EXCEPT !.tk.channel = r.v],
                     ErrorObj("Error", "No identity has been assigned to this client")),
          [s EXCEPT !.tk.channel = r.v, !.tk.sent = r.v,
                    !.tk.pc = "q_proposal"]}

\* Lines 51-93: the proposal settles with answer a.
QueryProposalSettled(s, a) ==
    IF ~a.ok
    THEN QueryCatch([s EXCEPT !.tk.raw = [t |-> "rejected"]], a.v)
    ELSE Normalize([s EXCEPT !.tk.raw = a.v], a.v)

(***************************************************************************)
(* getBlockByNumber, getTransactionByID, getBlockByHash, getChannelInfo    *)
(***************************************************************************)
\* The four differ in the query they send: queryBlock, queryTransaction,
\* queryBlockByHash, queryInfo.
LedgerOps ==
    {"getBlockByNumber", "getTransactionByID", "getBlockByHash",
     "getChannelInfo"}

\* The eight operations of QueryService.
FacadeOps ==
    {"queryChaincode", "getInstalledChaincodes", "getChannels", "crawlBlock"}
        \cup LedgerOps

\* `return v` of a facade operation.
FacadeReturn(s, v) == Settle(s, Ok(v))

\* The catch of the inspection operations: return error.toString().
FacadeCatch(s, e) == FacadeReturn(s, ErrorToString(e))

\* What a ledger query settles with: a rejection, nothing, or the object.
LedgerAnswers ==
    {Thrown(ErrorObj("Error", "REQUEST_TIMEOUT")), Ok(Null),
     Ok([t |-> "ledgerObject"])}

\* On the call: await common.getChannel(orgName, userName, channelName).
LedgerQuery(s) == GetChannel(Await(s, "l_channel"), FALSE)

\* The channel is there: without one the code throws into its own catch;
\* with one it sends the query.
LedgerChannelSettled(s, r) ==
    IF ~r.ok
    THEN FacadeCatch(s, r.v)
    ELSE IF ~Truthy(r.v)
    THEN FacadeCatch([s EXCEPT !.tk.channel = r.v],
                     ErrorObj("Error", ChannelNotDefined(s.tk.channelName)))
    ELSE [s EXCEPT !.tk.channel = r.v, !.tk.sent = r.v, !.tk.pc = "l_query"]

\* The query settles with answer a.
LedgerQuerySettled(s, a) ==
    IF ~a.ok
    THEN FacadeCatch([s EXCEPT !.tk.raw = [t |-> "rejected"]], a.v)
    ELSE IF Truthy(a.v)
    THEN FacadeReturn([s EXCEPT !.tk.raw = a.v], a.v)
    ELSE FacadeReturn([s EXCEPT !.tk.raw = a.v], Str("response_payload is null"))

(***************************************************************************)
(* getChannels                                                             *)
(***************************************************************************)
\* What client.queryChannels settles with: a rejection, nothing, a response
\* without its channels array, or a response with it.
ChannelsAnswers ==
    {Thrown(ErrorObj("Error", "REQUEST_TIMEOUT")), Ok(Null),
     Ok([t |-> "ChannelQueryResponse", channels |-> Null]),
     Ok([t |-> "ChannelQueryResponse",
         channels |-> [t |-> "array", items |-> <<"ch1">>]])}

\* Line 278, on the call: getChannels has no userName, so the arguments of
\* common.getClientForOrg(orgName, userName) read a free name.
GetChannels(s) ==
    IF "userName" \notin host
    THEN {FacadeCatch(s, NotDefined("userName"))}
    ELSE GetClientForOrg(Await(s, "gc_client"), FALSE)

\* Lines 278-281: the client is there; client.queryChannels(peerName).
ChannelsClientSettled(s, r) ==
    IF ~r.ok
    THEN FacadeCatch(s, r.v)
    ELSE [s EXCEPT !.tk.sent = r.v, !.tk.pc = "gc_query"]

\* Lines 281-297: the loop over response.channels only logs; the response
\* is returned as it came.
ChannelsQuerySettled(s, a) ==
    IF ~a.ok
    THEN FacadeCatch([s EXCEPT !.tk.raw = [t |-> "rejected"]], a.v)
    ELSE IF ~Truthy(a.v)
    THEN FacadeReturn([s EXCEPT !.tk.raw = a.v], Str("response_payloads is null"))
    ELSE IF a.v.channels = Null
    THEN FacadeCatch([s EXCEPT !.tk.raw = a.v], NoProperty("length"))
    ELSE FacadeReturn([s EXCEPT !.tk.raw = a.v], a.v)

(***************************************************************************)
(* getInstalledChaincodes                                                  *)
(***************************************************************************)
\* The `type` argument: 'installed' asks the client, anything else the
\* channel.
ChaincodeTypes == {"installed", "instantiated"}

Chaincode(name) == [name |-> name, version |-> "v1", path |-> "github.com/" \o name]

\* What the chaincode queries settle with.
ChaincodeAnswers ==
    {Thrown(ErrorObj("Error", "REQUEST_TIMEOUT")), Ok(Null),
     Ok([t |-> "ChaincodeQueryResponse", chaincodes |-> Null])}
    \cup {Ok([t |-> "ChaincodeQueryResponse",
              chaincodes |-> [t |-> "array", items |-> ccs]]) :
            ccs \in {<<>>, <<Chaincode("mycc")>>,
                     <<Chaincode("mycc"), Chaincode("othercc")>>}}

\* Lines 255-257: the descriptor of one chaincode.
ChaincodeDetail(cc) ==
    Str("name: " \o cc.name \o ", version: " \o cc.version \o ", path: " \o cc.path)

\* Line 229, on the call: the same free userName as in getChannels.
GetInstalledChaincodes(s) ==
    IF "userName" \notin host
    THEN {FacadeCatch(s, NotDefined("userName"))}
    ELSE GetClientForOrg(Await(s, "ic_client"), FALSE)

\* Lines 229-236: the client is there; by `type`, the client is queried or
\* the channel is resolved first.
InstalledClientSettled(s, r, type) ==
    IF ~r.ok
    THEN {FacadeCatch(s, r.v)}
    ELSE IF type = "installed"
    THEN {[s EXCEPT !.tk.sent = r.v, !.tk.pc = "ic_query"]}
    ELSE GetChannel(Await(s, "ic_channel"), FALSE)

\* Lines 236-242: the channel is there, or the throw of line 240.
InstalledChannelSettled(s, r) ==
    IF ~r.ok
    THEN FacadeCatch(s, r.v)
    ELSE IF ~Truthy(r.v)
    THEN FacadeCatch([s EXCEPT !.tk.channel = r.v],
                     ErrorObj("Error", ChannelNotDefined(s.tk.channelName)))
    ELSE [s EXCEPT !.tk.channel = r.v, !.tk.sent = r.v, !.tk.pc = "ic_query"]

\* Lines 244-267: the descriptors of the chaincodes, in their order.
InstalledQuerySettled(s, a) ==
    IF ~a.ok
    THEN FacadeCatch([s EXCEPT !.tk.raw = [t |-> "rejected"]], a.v)
    ELSE IF ~Truthy(a.v)
    THEN FacadeReturn([s EXCEPT !.tk.raw = a.v], Str("response is null"))
    ELSE IF a.v.chaincodes = Null
    THEN FacadeCatch([s EXCEPT !.tk.raw = a.v], NoProperty("length"))
    ELSE FacadeReturn([s EXCEPT !.tk.raw = a.v],
            [t |-> "array",
             items |-> [i \in 1..Len(a.v.chaincodes.items) |->
                            ChaincodeDetail(a.v.chaincodes.items[i])]])

(***************************************************************************)
(* crawlBlock                                                              *)
(***************************************************************************)
\* A transaction entry of a block's data section, of which the code reads
\* payload.header.channel_header and payload.data.actions.  An endorser
\* transaction carries an actions array, possibly empty; a configuration
\* transaction carries none.
NoActions == [t |-> "array", items |-> <<>>]

OneAction(rwset) == [t |-> "array", items |-> <<[ns_rwset |-> rwset]>>]

TxEntry(id, actions) ==
    [tx_id |-> id, timestamp |-> "time of " \o id, channel_id |-> "ch1",
     typeString |-> IF actions = Null THEN "CONFIG" ELSE "ENDORSER_TRANSACTION",
     actions |-> actions]

TxEntries ==
    {TxEntry("tx1", OneAction(<<"mycc">>)), TxEntry("tx2", NoActions),
     TxEntry("tx3", Null)}

\* Entries in a block of the model.
MaxTxs == 2

TxArrays == UNION {[1..n -> TxEntries] : n \in 0..MaxTxs}

\* The header of the model's blocks.
Header == [number |-> "5", previous_hash |-> "aa", data_hash |-> "bb"]

\* A raw block: hasData is whether blockResult.data is there, txs is
\* blockResult.data.data, metadata is blockResult.metadata.metadata.
RawBlock(hasData, txs, metadata) ==
    [t |-> "block", header |-> Header, hasData |-> hasData, txs |-> txs,
     metadata |-> metadata]

MetadataArrays ==
    {Null, [t |-> "array", items |-> <<Str("signatures"), Str("tx filter")>>]}

\* What queryBlock and queryBlockByHash settle with.
BlockAnswers ==
    {Thrown(ErrorObj("Error", "REQUEST_TIMEOUT")), Ok(Null),
     Ok(RawBlock(FALSE, Null, Null))}
    \cup {Ok(RawBlock(TRUE, txs, m)) :
            txs \in {Null} \cup {[t |-> "array", items |-> a] : a \in TxArrays},
            m \in MetadataArrays}

\* Lines 304-320, _generateBlockHash: SHA-256 of the DER sequence (Number,
\* PreviousHash, DataHash).  The digest is kept as the value it is taken of.
GenerateBlockHash(header) ==
    IF CodecNames \subseteq host
    THEN Ok([t |-> "sha256",
             der |-> [Number |-> header.number,
                      PreviousHash |-> header.previous_hash,
                      DataHash |-> header.data_hash]])
    ELSE Thrown(NotDefined("asn"))

\* Lines 374-377, the catch of crawlBlock: it binds the error as `err` and
\* reads `error`, a free name.
CrawlCatch(s, e) ==
    IF "error" \in host
    THEN FacadeReturn(s, Str("[object Object]"))
    ELSE Settle(s, Thrown(NotDefined("error")))

\* Line 329, on the call: crawlBlock(blockNumberOrHash, option) has none of
\* orgName, userName, channelName; they are free names.
CrawlBlock(s) ==
    IF ~(SessionNames \subseteq host)
    THEN {CrawlCatch(s, NotDefined("orgName"))}
    ELSE GetChannel(Await(s, "k_channel"), FALSE)

\* Lines 329-337: the channel is there and is queried, by number or by
\* hash; nothing tests that it is a channel.
CrawlChannelSettled(s, r) ==
    IF ~r.ok
    THEN CrawlCatch(s, r.v)
    ELSE IF ~Truthy(r.v)
    THEN CrawlCatch([s EXCEPT !.tk.channel = r.v], NoProperty("queryBlock"))
    ELSE [s EXCEPT !.tk.channel = r.v, !.tk.sent = r.v, !.tk.pc = "k_block"]

\* Lines 338-344: the block is there.  await this._generateBlockHash(...)
\* suspends the call whether the hash is computed or the call of it fails.
CrawlBlockSettled(s, a) ==
    IF ~a.ok
    THEN CrawlCatch([s EXCEPT !.tk.raw = [t |-> "rejected"]], a.v)
    ELSE LET s1 == [s EXCEPT !.tk.raw = a.v]
         IN  IF ~Truthy(a.v)
             THEN FacadeReturn(s1, Null)
             ELSE IF ~a.v.hasData
             THEN CrawlCatch(s1, NoProperty("data"))
             ELSE IF a.v.txs = Null
             THEN FacadeReturn(s1, Null)
             ELSE IF a.v.metadata = Null
             THEN CrawlCatch(s1, NoProperty("metadata"))
             ELSE [s1 EXCEPT !.tk.ret = GenerateBlockHash(a.v.header),
                             !.tk.pc = "k_hash"]

\* Lines 351-363: the record of one entry.
TxRecord(d) ==
    [timestamp |-> d.timestamp, channel_id |-> d.channel_id, tx_id |-> d.tx_id,
     tx_type |-> d.typeString,
     ns_rwset |-> IF d.actions.items # <<>>
                  THEN d.actions.items[1].ns_rwset
                  ELSE <<>>]

\* Line 342: the last element of the metadata array.
TxCode(metadata) == metadata.items[Len(metadata.items)]

\* Lines 344-370: the hash is there; the header, the records of the entries
\* in their order, and the block.  Line 357 reads actions[0] of every entry.
CrawlHashSettled(s, r) ==
    LET block == s.tk.raw
        txs == block.txs.items
    IN  IF ~r.ok
        THEN CrawlCatch(s, r.v)
        ELSE IF \E i \in 1..Len(txs) : txs[i].actions = Null
        THEN CrawlCatch(s, NoProperty("0"))
        ELSE FacadeReturn(s,
                [t |-> "CrawledBlock",
                 header |-> [number |-> block.header.number,
                             previous_hash |-> block.header.previous_hash,
                             data_hash |-> block.header.data_hash,
                             block_hash |-> r.v],
                 data |-> [i \in 1..Len(txs) |-> TxRecord(txs[i])],
                 tx_code |-> TxCode(block.metadata)])

(***************************************************************************)
(* Steps.                                                                  *)
(***************************************************************************)
\* What lastDone keeps of the call task t completes in the step taken.  Of
\* a getClientForOrg that started in this very step, right after another
\* getClientForOrg returned, it also keeps that one's isRefresh and result:
\* the two calls were made in succession.
DoneRecord(t, tk) ==
    LET succession == /\ tk.op = "getClientForOrg"
                      /\ task[t].op = "idle"
                      /\ lastDone.op = "getClientForOrg"
    IN  [op |-> tk.op, channelName |-> tk.channelName,
         isRefresh |-> tk.isRefresh, outcome |-> tk.ret,
         channel |-> tk.channel, sent |-> tk.sent, raw |-> tk.raw,
         tried |-> tk.tried, atCall |-> tk.atCall,
         prevOp |-> IF succession THEN lastDone.op ELSE "none",
         prevRefresh |-> succession /\ lastDone.isRefresh,
         prevOutcome |-> IF succession THEN lastDone.outcome ELSE Ok(Null)]

\* Task t's segment ends in state s.  No segment of the facade or of the
\* session cache touches the metrics.
Commit(t, s) ==
    /\ CLIENT' = s.CLIENT
    /\ CHANNEL' = s.CHANNEL
    /\ handles' = s.handles
    /\ UNCHANGED <<host, metrics>>
    /\ IF s.tk.pc = "complete"
       THEN /\ task' = [task EXCEPT ![t] = IdleTask]
            /\ lastDone' = DoneRecord(t, s.tk)
       ELSE /\ task' = [task EXCEPT ![t] = s.tk]
            /\ lastDone' = NoneDone

\* A call starts in slot t.
Begin(t, op, channelName, isRefresh) ==
    [StateOf(t) EXCEPT !.tk = [IdleTask EXCEPT !.op = op, !.pc = "start",
                                               !.channelName = channelName,
                                               !.isRefresh = isRefresh,
                                               !.atCall = metrics]]

\* A call may start while fewer than MaxCalls have; it takes the first free
\* slot.
CanStart(t) ==
    /\ task[t].op = "idle"
    /\ calls < MaxCalls
    /\ \A u \in Tasks : task[u].op = "idle" => ~SlotBefore(u, t)

\* common.getClientForOrg(orgName, userName, isRefresh), called directly.
CallGetClientForOrg(t) ==
    /\ CanStart(t)
    /\ calls' = calls + 1
    /\ \E isRefresh \in BOOLEAN :
        \E s \in GetClientForOrg(Begin(t, "getClientForOrg", "", isRefresh),
                                 isRefresh) :
            Commit(t, s)

\* common.getChannel(orgName, userName, channelName, isRefresh), called
\* directly.
CallGetChannel(t) ==
    /\ CanStart(t)
    /\ calls' = calls + 1
    /\ \E channelName \in ChannelNames, isRefresh \in BOOLEAN :
        \E s \in GetChannel(Begin(t, "getChannel", channelName, isRefresh),
                            isRefresh) :
            Commit(t, s)

\* await client.initCredentialStores() resumes.
ResumeStores(t) ==
    /\ task[t].pc = "g_stores"
    /\ UNCHANGED calls
    /\ \E s \in ClientStoresSettled(StateOf(t)) : Commit(t, s)

\* await client.getUserContext(userName, true) resumes.
ResumeUser(t) ==
    /\ task[t].pc = "g_user"
    /\ UNCHANGED calls
    /\ \E s \in ClientUserSettled(StateOf(t)) : Commit(t, s)

\* CLIENT = await getClientForOrg(orgName, userName) resumes.
ResumeChannelClient(t) ==
    /\ task[t].pc = "c_assign"
    /\ UNCHANGED calls
    /\ \E s \in ChannelClientSettled(Resumed(t), Awaited(t)) : Commit(t, s)

\* queryChaincode(peerNames, channelName, chaincodeName, fcn, args, orgName,
\* userName) is called.
CallQueryChaincode(t) ==
    /\ CanStart(t)
    /\ calls' = calls + 1
    /\ \E channelName \in ChannelNames :
        \E s \in QueryChaincode(Begin(t, "queryChaincode", channelName, FALSE)) :
            Commit(t, s)

\* queryChaincode resumes from await common.getClientForOrg.
ResumeQueryClient(t) ==
    /\ task[t].pc = "q_client"
    /\ UNCHANGED calls
    /\ \E s \in QueryClientSettled(Resumed(t), Awaited(t)) : Commit(t, s)

\* queryChaincode resumes from await common.getChannel.
ResumeQueryChannel(t) ==
    /\ task[t].pc = "q_channel"
    /\ UNCHANGED calls
    /\ \E s \in QueryChannelSettled(Resumed(t), Awaited(t)) : Commit(t, s)

\* queryChaincode resumes from await channel.sendTransactionProposal.
ResumeQueryProposal(t) ==
    /\ task[t].pc = "q_proposal"
    /\ UNCHANGED calls
    /\ \E a \in ProposalAnswers : Commit(t, QueryProposalSettled(StateOf(t), a))

\* One of the four ledger inspection operations is called.
CallLedgerQuery(t) ==
    /\ CanStart(t)
    /\ calls' = calls + 1
    /\ \E op \in LedgerOps, channelName \in ChannelNames :
        \E s \in LedgerQuery(Begin(t, op, channelName, FALSE)) : Commit(t, s)

\* The inspection operation resumes from await common.getChannel.
ResumeLedgerChannel(t) ==
    /\ task[t].pc = "l_channel"
    /\ UNCHANGED calls
    /\ Commit(t, LedgerChannelSettled(Resumed(t), Awaited(t)))

\* The inspection operation resumes from its query.
ResumeLedgerQuery(t) ==
    /\ task[t].pc = "l_query"
    /\ UNCHANGED calls
    /\ \E a \in LedgerAnswers : Commit(t, LedgerQuerySettled(StateOf(t), a))

\* getChannels(peerName, orgName) is called.
CallGetChannels(t) ==
    /\ CanStart(t)
    /\ calls' = calls + 1
    /\ \E s \in GetChannels(Begin(t, "getChannels", "", FALSE)) : Commit(t, s)

\* getChannels resumes from await common.getClientForOrg.
ResumeChannelsClient(t) ==
    /\ task[t].pc = "gc_client"
    /\ UNCHANGED calls
    /\ Commit(t, ChannelsClientSettled(Resumed(t), Awaited(t)))

\* getChannels resumes from await client.queryChannels.
ResumeChannelsQuery(t) ==
    /\ task[t].pc = "gc_query"
    /\ UNCHANGED calls
    /\ \E a \in ChannelsAnswers : Commit(t, ChannelsQuerySettled(StateOf(t), a))

\* getInstalledChaincodes(peerName, channelName, type, orgName) is called.
CallGetInstalledChaincodes(t) ==
    /\ CanStart(t)
    /\ calls' = calls + 1
    /\ \E channelName \in ChannelNames :
        \E s \in GetInstalledChaincodes(
                    Begin(t, "getInstalledChaincodes", channelName, FALSE)) :
            Commit(t, s)

\* getInstalledChaincodes resumes from await common.getClientForOrg.
ResumeInstalledClient(t) ==
    /\ task[t].pc = "ic_client"
    /\ UNCHANGED calls
    /\ \E type \in ChaincodeTypes :
        \E s \in InstalledClientSettled(Resumed(t), Awaited(t), type) :
            Commit(t, s)

\* getInstalledChaincodes resumes from await common.getChannel.
ResumeInstalledChannel(t) ==
    /\ task[t].pc = "ic_channel"
    /\ UNCHANGED calls
    /\ Commit(t, InstalledChannelSettled(Resumed(t), Awaited(t)))

\* getInstalledChaincodes resumes from its query.
ResumeInstalledQuery(t) ==
    /\ task[t].pc = "ic_query"
    /\ UNCHANGED calls
    /\ \E a \in ChaincodeAnswers : Commit(t, InstalledQuerySettled(StateOf(t), a))

\* crawlBlock(blockNumberOrHash, option) is called; channelName is the
\* value of the global of that name, where there is one.
CallCrawlBlock(t) ==
    /\ CanStart(t)
    /\ calls' = calls + 1
    /\ \E channelName \in ChannelNames :
        \E s \in CrawlBlock(Begin(t, "crawlBlock", channelName, FALSE)) :
            Commit(t, s)

\* crawlBlock resumes from await common.getChannel.
ResumeCrawlChannel(t) ==
    /\ task[t].pc = "k_channel"
    /\ UNCHANGED calls
    /\ Commit(t, CrawlChannelSettled(Resumed(t), Awaited(t)))

\* crawlBlock resumes from await channel.queryBlock or queryBlockByHash.
ResumeCrawlBlock(t) ==
    /\ task[t].pc = "k_block"
    /\ UNCHANGED calls
    /\ \E a \in BlockAnswers : Commit(t, CrawlBlockSettled(StateOf(t), a))

\* crawlBlock resumes from await this._generateBlockHash.
ResumeCrawlHash(t) ==
    /\ task[t].pc = "k_hash"
    /\ UNCHANGED calls
    /\ Commit(t, CrawlHashSettled(Resumed(t), Awaited(t)))

(***************************************************************************)
(* Specification.                                                          *)
(***************************************************************************)
Init ==
    /\ CLIENT = Null
    /\ CHANNEL = Null
    /\ handles = <<>>
    /\ task = [t \in Tasks |-> IdleTask]
    /\ calls = 0
    /\ lastDone = NoneDone
    /\ host \in HostScopes
    /\ metrics = NoMetrics

Next ==
    \E t \in Tasks :
        \/ CallGetClientForOrg(t)
        \/ CallGetChannel(t)
        \/ ResumeStores(t)
        \/ ResumeUser(t)
        \/ ResumeChannelClient(t)
        \/ CallQueryChaincode(t)
        \/ ResumeQueryClient(t)
        \/ ResumeQueryChannel(t)
        \/ ResumeQueryProposal(t)
        \/ CallLedgerQuery(t)
        \/ ResumeLedgerChannel(t)
        \/ ResumeLedgerQuery(t)
        \/ CallGetChannels(t)
        \/ ResumeChannelsClient(t)
        \/ ResumeChannelsQuery(t)
        \/ CallGetInstalledChaincodes(t)
        \/ ResumeInstalledClient(t)
        \/ ResumeInstalledChannel(t)
        \/ ResumeInstalledQuery(t)
        \/ CallCrawlBlock(t)
        \/ ResumeCrawlChannel(t)
        \/ ResumeCrawlBlock(t)
        \/ ResumeCrawlHash(t)

Spec == Init /\ [][Next]_vars

(***************************************************************************)
(* The claims.  lastDone is the call a step has just completed, so a       *)
(* state predicate on lastDone is a statement on every call that           *)
(* completes.                                                              *)
(***************************************************************************)

\* C1: no exception crosses the facade boundary: every call of the eight
\* facade operations, whatever fails under it, completes by returning a
\* value and never by throwing or rejecting.
NoExceptionCrossesFacade ==
    lastDone.op \in FacadeOps => lastDone.outcome.ok

\* The query succeeded: the first endorser response carries a payload under
\* status 200.
QuerySucceeded(raw) ==
    /\ raw.t = "results"
    /\ raw.responses # Null
    /\ raw.responses.t = "array"
    /\ raw.responses.first # Null
    /\ raw.responses.first.t = "endorsed"
    /\ raw.responses.first.response # Null
    /\ raw.responses.first.response.status = Num(200)

\* The QueryResults a queryChaincode call makes for its caller: the tuples
\* of its `return common.createReturn(...)` statements.
StatusInvariant(q, raw) ==
    /\ q.statusCode = Num(200) <=>
            /\ QuerySucceeded(raw)
            /\ q.payload = DecodePayload(raw.responses.first.response.payload)
    /\ q.statusCode # Num(200) => q.payload = Empty

\* C2: every QueryResult of queryChaincode has statusCode 200 if and only if
\* the query succeeded and the payload is the decoded application data, and
\* an empty payload under any other statusCode; for every shape of the
\* endorser's response.
QueryResultStatusInvariant ==
    lastDone.op = "queryChaincode" =>
        \A i \in 1..Len(lastDone.tried) :
            StatusInvariant(lastDone.tried[i], lastDone.raw)

\* The first endorser entry of the answer is an Error object.
EndorserErrorAnswer(raw) ==
    /\ raw.t = "results"
    /\ raw.responses # Null
    /\ raw.responses.t = "array"
    /\ raw.responses.first # Null
    /\ raw.responses.first.t = "error"

\* The error's message parses as JSON that carries status and msg.
CarriesStatusAndMsg(err) ==
    /\ err.message # Null
    /\ JSONParse(err.message.text).ok
    /\ JSONParse(err.message.text).v # Null
    /\ {"status", "msg"} \subseteq DOMAIN JSONParse(err.message.text).v

\* The texts of the endorser's error: its message, and its toString().
RawErrorTexts(err) ==
    IF err.message = Null THEN {Str(""), Str(err.name)}
    ELSE {err.message, Str(err.name \o ": " \o err.message.text)}

\* C3: when the first endorser entry is an Error, normalization does not
\* raise and the QueryResult it makes for the caller is (status, empty, msg,
\* msg) when the error's message parses as JSON carrying status and msg, and
\* (202, empty, rawErrorText, rawErrorText), the text being that of the
\* endorser's error, when it does not.
EndorserErrorNormalized ==
    (lastDone.op = "queryChaincode" /\ EndorserErrorAnswer(lastDone.raw)) =>
        LET err == lastDone.raw.responses.first
        IN  /\ lastDone.tried # <<>>
            /\ IF CarriesStatusAndMsg(err)
               THEN LET obj == JSONParse(err.message.text).v
                    IN  lastDone.tried[1] =
                            QueryResult(obj.status, Empty, obj.msg, obj.msg)
               ELSE \E text \in RawErrorTexts(err) :
                        lastDone.tried[1] =
                            QueryResult(Num(202), Empty, text, text)

\* A step in which getClientForOrg is called directly.
StartsGetClientForOrg(isRefresh) ==
    /\ calls' = calls + 1
    /\ \/ lastDone'.op = "getClientForOrg" /\ lastDone'.isRefresh = isRefresh
       \/ \E t \in Tasks : /\ task[t].op = "idle"
                           /\ task'[t].op = "getClientForOrg"
                           /\ task'[t].isRefresh = isRefresh

\* getClientForOrg(isRefresh = false) has just returned a client and is
\* called again, isRefresh = false, in the next step.
CalledTwiceInSuccession ==
    /\ lastDone.op = "getClientForOrg"
    /\ ~lastDone.isRefresh
    /\ lastDone.outcome.ok
    /\ StartsGetClientForOrg(FALSE)

\* A step in which a getClientForOrg(isRefresh = true) returns a client.
RefreshReturns ==
    /\ lastDone' # lastDone
    /\ lastDone'.op = "getClientForOrg"
    /\ lastDone'.isRefresh
    /\ lastDone'.outcome.ok

\* C4: session reuse is idempotent: getClientForOrg called twice in
\* succession with isRefresh = false returns the same handle both times and
\* the second call builds no handle; called with isRefresh = true it returns
\* a handle other than the cached one, which becomes the cached one.
SessionReuseIdempotent ==
    [][/\ CalledTwiceInSuccession =>
            /\ lastDone'.op = "getClientForOrg"
            /\ lastDone'.outcome = lastDone.outcome
            /\ handles' = handles
            /\ CLIENT' = CLIENT
       /\ RefreshReturns =>
            /\ lastDone'.outcome.v # CLIENT
            /\ lastDone'.outcome.v \notin {ClientH(i) : i \in
                    {j \in DOMAIN handles : handles[j] \in {"ready", "failed"}}}
            /\ CLIENT' = lastDone'.outcome.v]_vars

\* Two non-refreshing calls in succession have returned the one handle.
SessionReuseWitness ==
    /\ lastDone.op = "getClientForOrg"
    /\ ~lastDone.isRefresh
    /\ lastDone.prevOp = "getClientForOrg"
    /\ ~lastDone.prevRefresh
    /\ lastDone.prevOutcome.ok
    /\ lastDone.outcome = lastDone.prevOutcome
    /\ lastDone.outcome.v = CLIENT
    /\ Len(handles) = 1

\* C5: session refresh is atomic under concurrency: in every interleaving
\* the cached client is no handle, or a handle whose profiles, credential
\* stores and user context are all done; one still being initialised, or
\* whose initialisation failed, is never in the cache, and neither is a
\* channel of such a client.
CachedClientComplete ==
    /\ CLIENT # Null =>
            /\ CLIENT.t = "client"
            /\ CLIENT.id \in DOMAIN handles
            /\ handles[CLIENT.id] = "ready"
    /\ CHANNEL # Null =>
            /\ CHANNEL.t = "channel"
            /\ handles[CHANNEL.client] = "ready"
    /\ \A t \in Tasks :
            (task[t].ret.ok /\ task[t].ret.v # Null /\ task[t].ret.v.t = "client")
                => handles[task[t].ret.v.id] = "ready"

\* A refresh is under way, its client not yet initialised, while the cache
\* holds the client of before.
RefreshUnderWay ==
    /\ CLIENT # Null
    /\ \E t \in Tasks :
            /\ task[t].client # 0
            /\ task[t].client # CLIENT.id
            /\ handles[task[t].client] \in {"profiles", "stores"}

\* The call fetched a block that carries a data section and its metadata.
FetchedBlock(d) ==
    /\ d.op = "crawlBlock"
    /\ d.raw.t = "block"
    /\ d.raw.hasData
    /\ d.raw.metadata # Null

\* The entry's envelope has no chaincode action.
NoChaincodeAction(entry) ==
    entry.actions = Null \/ entry.actions.items = <<>>

\* C6: crawl completeness: of a fetched block whose data section holds k >= 1
\* entries crawlBlock returns a CrawledBlock of exactly k records in the
\* order of the entries, and the record of an entry without chaincode
\* action has an empty read/write-set sequence.
CrawlCompleteness ==
    (/\ FetchedBlock(lastDone)
     /\ lastDone.raw.txs # Null
     /\ lastDone.raw.txs.items # <<>>) =>
        LET txs == lastDone.raw.txs.items
            block == lastDone.outcome.v
        IN  /\ lastDone.outcome.ok
            /\ block.t = "CrawledBlock"
            /\ Len(block.data) = Len(txs)
            /\ \A i \in 1..Len(txs) :
                    /\ block.data[i].tx_id = txs[i].tx_id
                    /\ NoChaincodeAction(txs[i]) => block.data[i].ns_rwset = <<>>

\* C7: crawlBlock returns empty, neither a CrawledBlock nor an error, when
\* the fetched block has nothing to crawl: its transaction data is absent,
\* or is there with zero entries.
CrawlNothingReturnsEmpty ==
    (/\ FetchedBlock(lastDone)
     /\ \/ lastDone.raw.txs = Null
        \/ lastDone.raw.txs.items = <<>>) =>
        lastDone.outcome = Ok(Null)

\* The facade operations that are given a channel name and resolve it.
ChannelOps == {"queryChaincode"} \cup LedgerOps

\* C8: when session resolution yields no channel handle, an operation that
\* takes a channel name returns a QueryResult-shaped failure of statusCode
\* 202 with a message, and issues no network query; it does not raise.
MissingChannelReturns202 ==
    (lastDone.op \in ChannelOps /\ lastDone.channel = Null) =>
        /\ lastDone.outcome.ok
        /\ lastDone.outcome.v.t = "QueryResult"
        /\ lastDone.outcome.v.statusCode = Num(202)
        /\ lastDone.outcome.v.message \notin {Null, Empty}
        /\ lastDone.sent = Null

\* The call ended on a failure path: it raised, or returned an error's text
\* or a QueryResult other than 200.
FailurePath(d) ==
    \/ ~d.outcome.ok
    \/ d.outcome.v.t = "string"
    \/ d.outcome.v.t = "QueryResult" /\ d.outcome.v.statusCode # Num(200)

\* C9: every facade call is metered: as it completes, the request counter
\* has advanced over its value at the call, one of the duration histograms
\* has taken an observation, and on a failure path the error counter has
\* advanced too.
EveryCallMetered ==
    lastDone.op \in FacadeOps =>
        /\ metrics.requestCounter > lastDone.atCall.requestCounter
        /\ \E h \in {"sendTransactionTotalHistogram", "sendProposalHistogram",
                     "sendTransactionHistogram"} :
                metrics[h] > lastDone.atCall[h]
        /\ FailurePath(lastDone) =>
                metrics.errorRequestCounter > lastDone.atCall.errorRequestCounter

\* C10: session consistency: whenever a client and a channel are both
\* cached, the cached channel was derived from the cached client.
ChannelOfCachedClient ==
    (CLIENT # Null /\ CHANNEL # Null) => CHANNEL.client = CLIENT.id

\* Neither cache slot changes in the step, and no client is built.
CacheUntouched == UNCHANGED <<CLIENT, CHANNEL, handles>>

\* getChannel is called directly, isRefresh = false, with whatever channel
\* name: it returns the cached channel at once.
DirectCallServedFromCache ==
    (/\ calls' = calls + 1
     /\ \/ lastDone'.op = "getChannel" /\ ~lastDone'.isRefresh
        \/ \E t \in Tasks : /\ task[t].op = "idle"
                            /\ task'[t].op = "getChannel"
                            /\ ~task'[t].isRefresh) =>
        /\ lastDone'.op = "getChannel"
        /\ lastDone'.outcome = Ok(CHANNEL)
        /\ CacheUntouched

\* An inspection operation is called: line 106 and its like get the cached
\* channel, and the query that follows is sent on the handle they got.
LedgerCallServedFromCache ==
    \A t \in Tasks :
        /\ (task[t].op = "idle" /\ task'[t].op \in LedgerOps) =>
                /\ task'[t].pc = "l_channel"
                /\ task'[t].ret = Ok(CHANNEL)
                /\ CacheUntouched
        /\ (/\ task[t].op \in LedgerOps
             /\ task[t].pc = "l_channel"
             /\ task[t].ret.ok
             /\ Truthy(task[t].ret.v)
             /\ task'[t] # task[t]) =>
                /\ task'[t].pc = "l_query"
                /\ task'[t].sent = task[t].ret.v

\* queryChaincode resumes with its client: line 34 gets the cached channel,
\* and the proposal that follows is sent on the handle it got.
QueryCallServedFromCache ==
    \A t \in Tasks :
        /\ (/\ task[t].op = "queryChaincode"
             /\ task[t].pc = "q_client"
             /\ task[t].ret.ok
             /\ task'[t] # task[t]) =>
                /\ task'[t].pc = "q_channel"
                /\ task'[t].ret = Ok(CHANNEL)
                /\ CacheUntouched
        /\ (/\ task[t].op = "queryChaincode"
             /\ task[t].pc = "q_channel"
             /\ task[t].ret.ok
             /\ Truthy(task[t].ret.v)
             /\ task'[t].pc = "q_proposal") =>
                task'[t].sent = task[t].ret.v

\* C11: once a channel is cached, every getChannel without isRefresh
\* returns that cached handle and leaves both cache slots as they are,
\* whatever orgName, userName and channelName it is given; the facade never
\* passes isRefresh, so its queries run on the cached channel even when
\* another channel name is asked for.
CachedChannelServesEveryName ==
    [][CHANNEL # Null =>
            /\ DirectCallServedFromCache
            /\ LedgerCallServedFromCache
            /\ QueryCallServedFromCache]_vars

\* A facade query for one channel name has run on the cached channel of
\* another name.
QueriedOtherChannel ==
    /\ lastDone.op \in ChannelOps
    /\ lastDone.sent # Null
    /\ lastDone.sent = CHANNEL
    /\ lastDone.sent.name # lastDone.channelName

=============================================================================
